---- MODULE Spec2Model ----
(***************************************************************************)
(* Model of notification/demo/test-producer.py: an interactive script that *)
(* builds a Kafka producer, reads menu selections and publishes            *)
(* hand-built events to the topic 'notification.requests'.                 *)
(*                                                                         *)
(* A Python str is modelled as a sequence of tokens (each token a TLA+     *)
(* string standing for one or more characters); " " is the whitespace      *)
(* token.  A Python dict is modelled as a record whose DOMAIN is the set   *)
(* of its keys.                                                            *)
(***************************************************************************)
EXTENDS Integers, Sequences, FiniteSets, TLC

\* ------------------------------------------------------------------ bounds
\* Number of lines the user may enter at the menu prompt in one run.
MaxSelections == 2
\* Number of partitions of the topic (a property of the broker).
NumPartitions == 2

\* ------------------------------------------------------- program constants
\* timedelta(hours=1), in minutes
ResetTtlMinutes == 60
\* timedelta(minutes=30)
SlotTtlMinutes == 30

Topic == <<"notification.requests">>
None == <<"None">>

DefaultNewUserEmail == <<"test@example.com">>
DefaultUserName == <<"Hong Gildong">>
DefaultResetEmail == <<"forgot@example.com">>
DefaultBuyerEmail == <<"buyer@example.com">>
DefaultProductName == <<"limited-edition sneakers">>

\* Lines the user may type at the menu prompt.
MenuInputs ==
  { <<"1">>, <<" ", "1", " ">>, <<"2">>, <<"3">>, <<"4">>,
    <<"q">>, <<"Q">>, <<" ", "Q">>,
    <<>>, <<" ">>, <<"5">>, <<"1", "1">> }

\* Lines the user may type at a parameter prompt.
ParamInputs == { <<>>, <<" ">>, <<" ", "a", " ">> }

VARIABLES
  pc,          \* position of main: "start", "menu", "prompt", "send", "await", "exited", "crashed"
  producer,    \* "none", "open", "closed"
  closeCount,  \* number of producer.close() calls
  exitStatus,  \* process exit status, -1 while running
  exitCause,   \* why the menu loop was left: "none", "quit", "KeyboardInterrupt", "EOFError", "connect"
  choice,      \* the stripped line read at the menu prompt
  selections,  \* number of lines read at the menu prompt
  args,        \* parameter values read so far for the current choice
  queue,       \* send operations the current branch still has to call
  inflight,    \* the event of the send operation blocked in future.get, or None
  sent,        \* every record handed to producer.send, in order
  acked,       \* indices of sent whose future.get returned
  failed,      \* indices of sent whose future.get raised
  broker,      \* the topic: per partition, the keys appended
  out,         \* what the script printed
  returned,    \* eventIds of the events the send operations returned
  nextUuid,    \* number of uuid4() draws so far
  now          \* the clock, in minutes; a wait in future.get takes one minute

vars == <<pc, producer, closeCount, exitStatus, exitCause, choice, selections,
          args, queue, inflight, sent, acked, failed, broker, out, returned,
          nextUuid, now>>

\* ----------------------------------------------------------- str helpers
IsSpace(c) == c = " "

RECURSIVE LStrip(_)
LStrip(s) ==
  IF s = <<>> THEN <<>>
  ELSE IF IsSpace(Head(s)) THEN LStrip(Tail(s))
  ELSE s

RECURSIVE RStrip(_)
RStrip(s) ==
  IF s = <<>> THEN <<>>
  ELSE IF IsSpace(s[Len(s)]) THEN RStrip(SubSeq(s, 1, Len(s) - 1))
  ELSE s

\* str.strip()
Strip(s) == RStrip(LStrip(s))

\* str.lower()
Lower(s) == [i \in 1..Len(s) |-> IF s[i] = "Q" THEN "q" ELSE s[i]]

\* input(...).strip() or default
OrDefault(raw, default) == IF Strip(raw) = <<>> THEN default ELSE Strip(raw)

\* Uuid4Str with the identifier computed once and reused by every call.
Uuid4Str_Reused(prefix, n) == <<prefix, ToString(0)>>

\* the n-th uuid4() of the run rendered in an f-string after a prefix.
\* uuid4 is modelled by its contract: the n-th call yields an identifier no
\* earlier call yielded (a random collision is outside the model).
Uuid4Str(prefix, n) == <<prefix, ToString(n)>>

\* datetime.isoformat() + 'Z'
IsoZ(t) == <<ToString(t), "Z">>

\* ------------------------------------------------------------ the events
\* send_new_user_registered, the dict literal
NewUserEvent(email, user_name, u, t) ==
  [ eventId    |-> Uuid4Str("evt-", u),
    eventType  |-> "NEW_USER_REGISTERED",
    occurredAt |-> IsoZ(t),
    userId     |-> Uuid4Str("user-", u + 1),
    email      |-> email,
    userName   |-> user_name ]

\* PasswordResetEvent with the expiresAt member left out.
PasswordResetEvent_NoExpiry(email, u, t) ==
  [ eventId    |-> <<"evt-", ToString(u)>>,
    eventType  |-> "PASSWORD_RESET_REQUESTED",
    occurredAt |-> <<ToString(t), "Z">>,
    userId     |-> <<"user-", ToString(u + 1)>>,
    email      |-> email,
    resetToken |-> <<"reset-token-", ToString(u + 2)>> ]

\* send_password_reset_requested, the dict literal
PasswordResetEvent(email, u, t) ==
  [ eventId    |-> Uuid4Str("evt-", u),
    eventType  |-> "PASSWORD_RESET_REQUESTED",
    occurredAt |-> IsoZ(t),
    userId     |-> Uuid4Str("user-", u + 1),
    email      |-> email,
    resetToken |-> Uuid4Str("reset-token-", u + 2),
    expiresAt  |-> IsoZ(t + ResetTtlMinutes) ]

\* send_purchase_slot_acquired, the dict literal
PurchaseSlotEvent(email, product_name, u, t) ==
  [ eventId     |-> Uuid4Str("evt-", u),
    eventType   |-> "PURCHASE_SLOT_ACQUIRED",
    occurredAt  |-> IsoZ(t),
    userId      |-> Uuid4Str("user-", u + 1),
    email       |-> email,
    slotId      |-> Uuid4Str("slot-", u + 2),
    productId   |-> Uuid4Str("prod-", u + 3),
    productName |-> product_name,
    expiresAt   |-> IsoZ(t + SlotTtlMinutes) ]

\* A pending call of a send operation: the function and its arguments.
Call(fn, a) == [fn |-> fn, a |-> a]

\* The event the called send operation builds at uuid counter u and time t.
BuildEvent(call, u, t) ==
  CASE call.fn = "send_new_user_registered" ->
         NewUserEvent(call.a[1], call.a[2], u, t)
    [] call.fn = "send_password_reset_requested" ->
         PasswordResetEvent(call.a[1], u, t)
    [] call.fn = "send_purchase_slot_acquired" ->
         PurchaseSlotEvent(call.a[1], call.a[2], u, t)

\* Number of uuid4() calls in the dict literal of each send operation.
UuidDraws(fn) ==
  CASE fn = "send_new_user_registered" -> 2
    [] fn = "send_password_reset_requested" -> 3
    [] fn = "send_purchase_slot_acquired" -> 4

\* ---------------------------------------------------------- the producer
\* key_serializer=lambda k: k.encode('utf-8') if k else None
KeySerializer(k) == IF k = <<>> THEN None ELSE k

\* value_serializer=lambda v: json.dumps(v).encode('utf-8'): a JSON object
\* with the members of the dict
ValueSerializer(v) == [k \in DOMAIN v |-> v[k]]

\* The number rendered in a key, 0 for a key that renders none.
KeyNumber(key) ==
  LET N == 0..(9 * MaxSelections)
  IN IF Len(key) = 2 /\ \E n \in N : ToString(n) = key[2]
     THEN CHOOSE n \in N : ToString(n) = key[2]
     ELSE 0

\* The client's default partitioner: a hash of the key bytes modulo the
\* partition count.
PartitionOf(key) == KeyNumber(key) % NumPartitions

\* ProducerRecord keyed by the userId of the event instead of the key given.
ProducerRecord_UserKey(topic, value, key) ==
  [ topic  |-> topic,
    key    |-> KeySerializer(value.userId),
    value  |-> ValueSerializer(value),
    partition |-> PartitionOf(KeySerializer(value.userId)),
    sel    |-> selections,
    choice |-> choice ]

\* producer.send(topic, value=..., key=...): the record given to the client.
\* sel and choice record the menu selection that caused the call.
ProducerRecord(topic, value, key) ==
  [ topic  |-> topic,
    key    |-> KeySerializer(key),
    value  |-> ValueSerializer(value),
    partition |-> PartitionOf(KeySerializer(key)),
    sel    |-> selections,
    choice |-> choice ]

\* ------------------------------------------------------------- printing
\* One printed message; sel is the menu selection during which it was printed.
Msg(kind, sel, eid, p, off) ==
  [kind |-> kind, sel |-> sel, eventId |-> eid, partition |-> p, offset |-> off]

Say(o, kind, sel) == Append(o, Msg(kind, sel, <<>>, -1, -1))

\* ------------------------------------------------------------------ Init
Init ==
  /\ pc = "start"
  /\ producer = "none"
  /\ closeCount = 0
  /\ exitStatus = -1
  /\ exitCause = "none"
  /\ choice = <<>>
  /\ selections = 0
  /\ args = <<>>
  /\ queue = <<>>
  /\ inflight = None
  /\ sent = <<>>
  /\ acked = {}
  /\ failed = {}
  /\ broker = [p \in 0..(NumPartitions - 1) |-> <<>>]
  /\ out = <<>>
  /\ returned = {}
  /\ nextUuid = 0
  /\ now = 0

\* ---------------------------------------------------- main's handlers
\* The top of the while loop: the menu is printed and input() blocks.
LoopTop(o, sel) == Say(o, "menu", sel)

\* Lines 109-114: create_producer() returned.
CreateProducerOk ==
  /\ pc = "start"
  /\ producer' = "open"
  /\ out' = LoopTop(Say(Say(out, "connecting", 0), "connected", 0), 0)
  /\ pc' = "menu"
  /\ UNCHANGED <<closeCount, exitStatus, exitCause, choice, selections, args,
                 queue, inflight, sent, acked, failed, broker, returned,
                 nextUuid, now>>

\* Lines 115-120: create_producer() raised an Exception; sys.exit(1).
CreateProducerFail ==
  /\ pc = "start"
  /\ out' = Say(Say(out, "connecting", 0), "connect_failed", 0)
  /\ exitStatus' = 1
  /\ exitCause' = "connect"
  /\ pc' = "exited"
  /\ UNCHANGED <<producer, closeCount, choice, selections, args, queue,
                 inflight, sent, acked, failed, broker, returned, nextUuid, now>>

\* Line 171 after a break: producer.close() and main returns.
BreakAndClose(cause, o) ==
  /\ out' = o
  /\ producer' = "closed"
  /\ closeCount' = closeCount + 1
  /\ exitCause' = cause
  /\ exitStatus' = 0
  /\ pc' = "exited"
  /\ queue' = <<>>

\* Lines 165-167, 171: except KeyboardInterrupt: print, break, close.
ExceptKeyboardInterrupt(sel) ==
  BreakAndClose("KeyboardInterrupt", Say(out, "bye", sel))

\* Lines 168-169: except Exception: print the error; the loop continues.
ExceptException(sel) ==
  /\ out' = LoopTop(Say(out, "error", sel), sel)
  /\ pc' = "menu"
  /\ queue' = <<>>
  /\ UNCHANGED <<producer, closeCount, exitCause, exitStatus>>

\* An exception leaves main uncaught: traceback, the interpreter exits 1.
Uncaught(exc) ==
  /\ out' = Say(out, "traceback", selections)
  /\ exitCause' = exc
  /\ exitStatus' = 1
  /\ pc' = "crashed"
  /\ UNCHANGED <<producer, closeCount>>

\* AllCalls with the last two calls exchanged.
AllCalls_Reordered ==
  << Call("send_new_user_registered", <<DefaultNewUserEmail, DefaultUserName>>),
     Call("send_purchase_slot_acquired", <<DefaultBuyerEmail, DefaultProductName>>),
     Call("send_password_reset_requested", <<DefaultResetEmail>>) >>

\* The calls of the branch for choice '4', lines 153-155, with the defaults
\* of the signatures.
AllCalls ==
  << Call("send_new_user_registered", <<DefaultNewUserEmail, DefaultUserName>>),
     Call("send_password_reset_requested", <<DefaultResetEmail>>),
     Call("send_purchase_slot_acquired", <<DefaultBuyerEmail, DefaultProductName>>) >>

\* Branch comparing only the first character of the line.
Branch_Prefix(c) ==
  CASE c # <<>> /\ c[1] = "1" -> "1"
    [] c # <<>> /\ c[1] = "2" -> "2"
    [] c # <<>> /\ c[1] = "3" -> "3"
    [] c # <<>> /\ c[1] = "4" -> "4"
    [] c # <<>> /\ Lower(c)[1] = "q" -> "q"
    [] OTHER -> "else"

\* Lines 137-162: the branch of the if/elif chain a stripped line takes.
Branch(c) ==
  CASE c = <<"1">> -> "1"
    [] c = <<"2">> -> "2"
    [] c = <<"3">> -> "3"
    [] c = <<"4">> -> "4"
    [] c \notin {<<"1">>, <<"2">>, <<"3">>, <<"4">>} /\ Lower(c) = <<"q">> -> "q"
    [] OTHER -> "else"

\* Lines 133-163: a line is read at the menu prompt and dispatched.
MenuInput(raw) ==
  /\ pc = "menu"
  /\ selections < MaxSelections
  /\ LET c == Strip(raw)
         sel == selections + 1
     IN /\ choice' = c
        /\ selections' = sel
        /\ args' = <<>>
        /\ CASE Branch(c) \in {"1", "2", "3"} ->
                  /\ pc' = "prompt"
                  /\ UNCHANGED <<out, queue, producer, closeCount, exitCause,
                                 exitStatus>>
             [] Branch(c) = "4" ->
                  /\ out' = Say(out, "all_start", sel)
                  /\ queue' = AllCalls
                  /\ pc' = "send"
                  /\ UNCHANGED <<producer, closeCount, exitCause, exitStatus>>
             [] Branch(c) = "q" ->
                  BreakAndClose("quit", Say(out, "bye", sel))
             [] OTHER ->
                  /\ out' = LoopTop(Say(out, "invalid", sel), sel)
                  /\ pc' = "menu"
                  /\ UNCHANGED <<queue, producer, closeCount, exitCause,
                                 exitStatus>>
  /\ UNCHANGED <<inflight, sent, acked, failed, broker, returned, nextUuid, now>>

\* Line 133 is outside the try: KeyboardInterrupt raised by input() at the
\* menu prompt is caught by no handler.
MenuInterrupt ==
  /\ pc = "menu"
  /\ Uncaught("KeyboardInterrupt")
  /\ UNCHANGED <<choice, selections, args, queue, inflight, sent, acked,
                 failed, broker, returned, nextUuid, now>>

\* Line 133: input() raises EOFError at end of input, outside the try.
MenuEOF ==
  /\ pc = "menu"
  /\ Uncaught("EOFError")
  /\ UNCHANGED <<choice, selections, args, queue, inflight, sent, acked,
                 failed, broker, returned, nextUuid, now>>

\* Number of parameter prompts of a branch.
NumPrompts(b) == IF b = "2" THEN 1 ELSE 2

\* The default of the i-th parameter prompt of a branch.
PromptDefault(b, i) ==
  CASE b = "1" -> IF i = 1 THEN DefaultNewUserEmail ELSE DefaultUserName
    [] b = "2" -> DefaultResetEmail
    [] b = "3" -> IF i = 1 THEN DefaultBuyerEmail ELSE DefaultProductName

\* SendFunction with the calls of branches '1' and '3' exchanged.
SendFunction_Swapped(b) ==
  CASE b = "1" -> "send_purchase_slot_acquired"
    [] b = "2" -> "send_password_reset_requested"
    [] b = "3" -> "send_new_user_registered"

\* The send operation a branch calls.
SendFunction(b) ==
  CASE b = "1" -> "send_new_user_registered"
    [] b = "2" -> "send_password_reset_requested"
    [] b = "3" -> "send_purchase_slot_acquired"

\* Lines 138-139, 143, 147-148: a parameter is read; after the last one the
\* send operation is called.
PromptInput(raw) ==
  /\ pc = "prompt"
  /\ LET b == Branch(choice)
         a == Append(args, OrDefault(raw, PromptDefault(b, Len(args) + 1)))
     IN IF Len(a) = NumPrompts(b)
        THEN /\ queue' = <<Call(SendFunction(b), a)>>
             /\ args' = <<>>
             /\ pc' = "send"
        ELSE /\ args' = a
             /\ pc' = "prompt"
             /\ UNCHANGED queue
  /\ UNCHANGED <<producer, closeCount, exitStatus, exitCause, choice,
                 selections, inflight, sent, acked, failed, broker, out,
                 returned, nextUuid, now>>

\* KeyboardInterrupt raised by input() at a parameter prompt, inside the try.
PromptInterrupt ==
  /\ pc = "prompt"
  /\ ExceptKeyboardInterrupt(selections)
  /\ args' = <<>>
  /\ UNCHANGED <<choice, selections, inflight, sent, acked, failed, broker,
                 returned, nextUuid, now>>

\* EOFError raised by input() at a parameter prompt, inside the try.
PromptEOF ==
  /\ pc = "prompt"
  /\ ExceptException(selections)
  /\ args' = <<>>
  /\ UNCHANGED <<choice, selections, inflight, sent, acked, failed, broker,
                 returned, nextUuid, now>>

\* SendOp printing the success line before the acknowledgement is awaited.
SendOp_PrintsFirst ==
  /\ pc = "send"
  /\ queue # <<>>
  /\ LET event == BuildEvent(Head(queue), nextUuid, now)
     IN /\ sent' = Append(sent, [ topic |-> Topic, key |-> KeySerializer(event.eventId),
                                  value |-> ValueSerializer(event),
                                  partition |-> PartitionOf(KeySerializer(event.eventId)),
                                  sel |-> selections, choice |-> choice ])
        /\ inflight' = event
        /\ out' = Append(out, Msg("success", selections, event.eventId,
                                  PartitionOf(KeySerializer(event.eventId)), 0))
  /\ nextUuid' = nextUuid + UuidDraws(Head(queue).fn)
  /\ pc' = "await"
  /\ UNCHANGED <<producer, closeCount, exitStatus, exitCause, choice,
                 selections, args, queue, acked, failed, broker,
                 returned, now>>

\* ------------------------------------------------- the send operations
\* Lines 31-40, 54-64, 78-90: the event is built and handed to
\* producer.send, which returns a future.
SendOp ==
  /\ pc = "send"
  /\ queue # <<>>
  /\ LET event == BuildEvent(Head(queue), nextUuid, now)
     IN /\ sent' = Append(sent, ProducerRecord(Topic, event, event.eventId))
        /\ inflight' = event
  /\ nextUuid' = nextUuid + UuidDraws(Head(queue).fn)
  /\ pc' = "await"
  /\ UNCHANGED <<producer, closeCount, exitStatus, exitCause, choice,
                 selections, args, queue, acked, failed, broker, out,
                 returned, now>>

\* Lines 40, 64, 90: producer.send itself raises (no metadata within the
\* client's blocking limit); the event was built and is dropped.
SendRaises ==
  /\ pc = "send"
  /\ queue # <<>>
  /\ nextUuid' = nextUuid + UuidDraws(Head(queue).fn)
  /\ ExceptException(selections)
  /\ UNCHANGED <<choice, selections, args, inflight, sent, acked, failed,
                 broker, returned, now>>

\* The broker appends the record of index i of sent to its partition.
Deliver(i) == [broker EXCEPT ![sent[i].partition] = Append(@, sent[i].key)]

\* Lines 41-49, 65-73, 91-100: future.get returned the record metadata; the
\* success lines are printed and the event returned.  Then the branch of
\* main goes on: the next call of choice '4', its final message, the menu.
AckOk ==
  /\ pc = "await"
  /\ LET i == Len(sent)
         p == sent[i].partition
         o == Append(out, Msg("success", selections, inflight.eventId, p,
                              Len(broker[p])))
     IN /\ broker' = Deliver(i)
        /\ acked' = acked \cup {i}
        /\ returned' = returned \cup {inflight.eventId}
        /\ inflight' = None
        /\ queue' = Tail(queue)
        /\ IF Tail(queue) # <<>>
           THEN /\ out' = o
                /\ pc' = "send"
           ELSE /\ out' = LoopTop(IF Branch(choice) = "4"
                                  THEN Say(o, "all_done", selections)
                                  ELSE o, selections)
                /\ pc' = "menu"
  /\ now' = now + 1
  /\ UNCHANGED <<producer, closeCount, exitStatus, exitCause, choice,
                 selections, args, sent, failed, nextUuid>>

\* AckFail that calls the send operation again instead of raising.
AckFail_Retry(delivered) ==
  /\ pc = "await"
  /\ failed' = failed \cup {Len(sent)}
  /\ broker' = IF delivered THEN Deliver(Len(sent)) ELSE broker
  /\ inflight' = None
  /\ pc' = "send"
  /\ now' = now + 1
  /\ UNCHANGED <<producer, closeCount, exitStatus, exitCause, choice,
                 selections, args, queue, sent, acked, out, returned, nextUuid>>

\* Lines 41, 65, 91: future.get(timeout=10) raises (a send error or the
\* timeout); the record may or may not have reached the broker.
AckFail(delivered) ==
  /\ pc = "await"
  /\ failed' = failed \cup {Len(sent)}
  /\ broker' = IF delivered THEN Deliver(Len(sent)) ELSE broker
  /\ inflight' = None
  /\ ExceptException(selections)
  /\ now' = now + 1
  /\ UNCHANGED <<choice, selections, args, sent, acked, returned, nextUuid>>

\* Lines 41, 65, 91: KeyboardInterrupt while future.get blocks.
AckInterrupt(delivered) ==
  /\ pc = "await"
  /\ failed' = failed \cup {Len(sent)}
  /\ broker' = IF delivered THEN Deliver(Len(sent)) ELSE broker
  /\ inflight' = None
  /\ ExceptKeyboardInterrupt(selections)
  /\ now' = now + 1
  /\ UNCHANGED <<choice, selections, args, sent, acked, returned, nextUuid>>

Next ==
  \/ CreateProducerOk
  \/ CreateProducerFail
  \/ \E raw \in MenuInputs : MenuInput(raw)
  \/ MenuInterrupt
  \/ MenuEOF
  \/ \E raw \in ParamInputs : PromptInput(raw)
  \/ PromptInterrupt
  \/ PromptEOF
  \/ SendOp
  \/ SendRaises
  \/ AckOk
  \/ \E delivered \in BOOLEAN : AckFail(delivered)
  \/ \E delivered \in BOOLEAN : AckInterrupt(delivered)

Spec == Init /\ [][Next]_vars

TypeOK ==
  /\ pc \in {"start", "menu", "prompt", "send", "await", "exited", "crashed"}
  /\ producer \in {"none", "open", "closed"}
  /\ closeCount \in 0..1
  /\ selections \in 0..MaxSelections
  /\ acked \cap failed = {}
  /\ acked \cup failed \subseteq 1..Len(sent)

\* ============================================================ properties
SentIdx == 1..Len(sent)
OutIdx == 1..Len(out)
EventTypes ==
  {"NEW_USER_REGISTERED", "PASSWORD_RESET_REQUESTED", "PURCHASE_SLOT_ACQUIRED"}
PublishingChoices == {<<"1">>, <<"2">>, <<"3">>, <<"4">>}
RequiredKeys == {"eventId", "eventType", "occurredAt", "userId"}
TypeKeys(t) ==
  CASE t = "NEW_USER_REGISTERED" -> {"userName"}
    [] t = "PASSWORD_RESET_REQUESTED" -> {"resetToken", "expiresAt"}
    [] t = "PURCHASE_SLOT_ACQUIRED" ->
         {"slotId", "productId", "productName", "expiresAt"}
    [] OTHER -> {}
\* indices of the records sent during menu selection s
SelIdx(s) == {i \in SentIdx : sent[i].sel = s}
TypeOf(i) == sent[i].value.eventType
IdOf(i) == sent[i].value.eventId
SuccessFor(eid) == {k \in OutIdx : out[k].kind = "success" /\ out[k].eventId = eid}

\* C1: every published event has the keys eventId, eventType, occurredAt and
\* userId and the type-specific keys of its eventType, whatever was typed.
C1_RequiredKeys ==
  \A i \in SentIdx :
    LET v == sent[i].value
    IN /\ RequiredKeys \subseteq DOMAIN v
       /\ v.eventType \in EventTypes
       /\ TypeKeys(v.eventType) \subseteq DOMAIN v

\* All three event types were published, one of them with a typed e-mail.
C1_Witness ==
  /\ \A t \in EventTypes : \E i \in SentIdx : TypeOf(i) = t
  /\ \E i \in SentIdx : sent[i].value.email = <<"a">>

\* C2: the eventType of every published event is in the closed enumeration
\* and matches the selection: choice 1 only NEW_USER_REGISTERED, choice 2
\* only PASSWORD_RESET_REQUESTED, choice 3 only PURCHASE_SLOT_ACQUIRED.
C2_TypeMatchesChoice ==
  \A i \in SentIdx :
    /\ TypeOf(i) \in EventTypes
    /\ sent[i].choice = <<"1">> => TypeOf(i) = "NEW_USER_REGISTERED"
    /\ sent[i].choice = <<"2">> => TypeOf(i) = "PASSWORD_RESET_REQUESTED"
    /\ sent[i].choice = <<"3">> => TypeOf(i) = "PURCHASE_SLOT_ACQUIRED"

\* Choices 2 and 3 have both published.
C2_Witness ==
  /\ \E i \in SentIdx : sent[i].choice = <<"2">>
  /\ \E i \in SentIdx : sent[i].choice = <<"3">>

\* C3: every record goes to the topic 'notification.requests' with a
\* non-empty key equal to the eventId of its own value and of no other
\* record's value; the broker holds no other key.
C3_KeyIsOwnEventId ==
  /\ \A i \in SentIdx :
       /\ sent[i].topic = <<"notification.requests">>
       /\ sent[i].key = IdOf(i)
       /\ sent[i].key \notin {None, <<>>}
       /\ \A j \in SentIdx \ {i} : sent[i].key # IdOf(j)
  /\ \A p \in DOMAIN broker : \A k \in 1..Len(broker[p]) :
       \E i \in SentIdx : sent[i].key = broker[p][k] /\ sent[i].partition = p

\* Two records were published and one reached the broker.
C3_Witness ==
  /\ Len(sent) >= 2
  /\ \E p \in DOMAIN broker : broker[p] # <<>>

\* C4: no two published events carry the same eventId.
C4_UniqueEventId ==
  \A i \in SentIdx : \A j \in SentIdx : i # j => IdOf(i) # IdOf(j)

\* A send of choice 1 failed and choice 4 then published its three events.
C4_Witness ==
  /\ \E i \in failed : sent[i].choice = <<"1">>
  /\ \E s \in 1..selections :
       /\ Cardinality(SelIdx(s)) = 3
       /\ \A i \in SelIdx(s) : sent[i].choice = <<"4">>

\* C5: no retry.  Within one menu selection a send operation hands over at
\* most one record, and a record whose send failed is followed by no record
\* of the same selection; a later record belongs to a later selection and is
\* a newly built event.
C5_NoRetry ==
  /\ \A i \in SentIdx : \A j \in SentIdx :
       (i < j /\ sent[i].sel = sent[j].sel) =>
         (i \notin failed /\ TypeOf(i) # TypeOf(j))
  /\ \A i \in failed : \A j \in SentIdx :
       j > i => (sent[j].sel > sent[i].sel /\ sent[j].value # sent[i].value)
  /\ (pc \in {"send", "await"} /\ failed # {}) =>
       \A i \in failed : i = Len(sent) \/ sent[i].sel < selections

\* A send failed and the user selected the same event type again.
C5_Witness ==
  \E i \in failed : \E j \in SentIdx : j > i /\ TypeOf(j) = TypeOf(i)

\* C6: a success message is printed only for an event the broker has
\* acknowledged, with its partition and offset; an event whose wait raised
\* has no success message and was not returned; while the wait lasts the
\* event has been sent and nothing is printed or returned for it.
C6_SuccessOnlyAfterAck ==
  /\ \A k \in OutIdx :
       out[k].kind = "success" =>
         \E i \in acked :
           /\ IdOf(i) = out[k].eventId
           /\ sent[i].partition = out[k].partition
           /\ out[k].offset + 1 \in 1..Len(broker[out[k].partition])
           /\ broker[out[k].partition][out[k].offset + 1] = sent[i].key
  /\ \A i \in failed : SuccessFor(IdOf(i)) = {} /\ IdOf(i) \notin returned
  /\ returned = {IdOf(i) : i \in acked}
  /\ pc = "await" =>
       /\ sent # <<>>
       /\ IdOf(Len(sent)) = inflight.eventId
       /\ SuccessFor(inflight.eventId) = {}
       /\ inflight.eventId \notin returned

\* One event was acknowledged and printed, another one failed.
C6_Witness ==
  /\ \E k \in OutIdx : out[k].kind = "success"
  /\ failed # {}

ChoiceFourOrder ==
  <<"NEW_USER_REGISTERED", "PASSWORD_RESET_REQUESTED", "PURCHASE_SLOT_ACQUIRED">>

\* C7: choice 4 publishes in the order NEW_USER_REGISTERED,
\* PASSWORD_RESET_REQUESTED, PURCHASE_SLOT_ACQUIRED, each after the previous
\* one was acknowledged; after a failure nothing more is sent for that
\* selection; 'all events published' is printed only when three events of
\* the selection were acknowledged and their success messages printed.
C7_PublishAllInOrder ==
  /\ \A i \in SentIdx :
       sent[i].choice = <<"4">> =>
         LET k == Cardinality({j \in SelIdx(sent[i].sel) : j < i})
         IN /\ k < 3
            /\ TypeOf(i) = ChoiceFourOrder[k + 1]
            /\ k > 0 => ((i - 1) \in acked /\ sent[i - 1].sel = sent[i].sel)
  /\ \A i \in failed : \A j \in SentIdx :
       (sent[i].choice = <<"4">> /\ j > i) => sent[j].sel # sent[i].sel
  /\ \A m \in OutIdx :
       out[m].kind = "all_done" =>
         /\ Cardinality(SelIdx(out[m].sel)) = 3
         /\ SelIdx(out[m].sel) \subseteq acked
         /\ \A i \in SelIdx(out[m].sel) :
              /\ sent[i].choice = <<"4">>
              /\ \E k \in SuccessFor(IdOf(i)) : k < m

\* One choice 4 stopped at a failed second event, another one completed.
C7_Witness ==
  /\ \E m \in OutIdx : out[m].kind = "all_done"
  /\ \E i \in failed :
       sent[i].choice = <<"4">> /\ TypeOf(i) = "PASSWORD_RESET_REQUESTED"

\* C8: only the choices 1, 2, 3 and 4 publish.  Every record was sent
\* during a selection of one of them; reading a line at the menu prompt
\* publishes nothing by itself, and a line that is neither a publishing
\* choice nor q/Q leaves the producer open and the script at the menu.
C8_OnlyChoicesPublish ==
  /\ [](\A i \in SentIdx : sent[i].choice \in PublishingChoices)
  /\ [][ (pc = "menu" /\ selections' # selections) =>
           /\ sent' = sent
           /\ broker' = broker
           /\ choice' \notin PublishingChoices =>
                (pc' \in {"menu", "exited"} /\ queue' = <<>>)
           /\ (choice' \notin PublishingChoices /\ Lower(choice') # <<"q">>) =>
                (pc' = "menu" /\ producer' = "open" /\ closeCount' = 0)
       ]_vars

\* An unrecognised line was read after an event had been published.
C8_Witness ==
  /\ sent # <<>>
  /\ choice \notin PublishingChoices
  /\ Lower(choice) # <<"q">>
  /\ pc = "menu"
  /\ out[Len(out) - 1].kind = "invalid"

\* C9: a failed publish does not end the session: after the error message
\* the same producer is open and the menu is shown; only q/Q or a
\* KeyboardInterrupt ends the menu loop.
C9_OnlyQuitOrInterruptEnds ==
  /\ (Len(out) >= 2 /\ out[Len(out)].kind = "menu"
        /\ out[Len(out) - 1].kind = "error") =>
       (pc = "menu" /\ producer = "open")
  /\ (pc \in {"exited", "crashed"} /\ exitCause # "connect") =>
       exitCause \in {"quit", "KeyboardInterrupt"}

\* C10: when the script ends by q or by a KeyboardInterrupt after the
\* producer was created, the producer has been closed exactly once and
\* nothing is published after the close; when creating the producer fails
\* the script exits with status 1, no menu shown and nothing published.
C10_ClosedExactlyOnce ==
  /\ (pc \in {"exited", "crashed"} /\ exitCause \in {"quit", "KeyboardInterrupt"}) =>
       (closeCount = 1 /\ producer = "closed")
  /\ producer = "closed" => (pc = "exited" /\ inflight = None /\ queue = <<>>)
  /\ exitCause = "connect" =>
       /\ exitStatus = 1
       /\ sent = <<>>
       /\ \A k \in OutIdx : out[k].kind # "menu"

====
